---- MODULE Spec2Model ----
(***************************************************************************)
(* Model of the flex output's define_table handler of osm2pgsql            *)
(* (src/src/flex-lua-table.cpp): setup_flex_table() and the four functions *)
(* it calls, acting on the list of tables (std::vector<flex_table_t>).     *)
(*                                                                         *)
(* A call of define_table is one atomic action: the Lua configuration      *)
(* script runs on a single thread.  A C++ exception thrown inside the      *)
(* handler ends the call; whatever the handler has written to the table    *)
(* list before the throw stays written.                                    *)
(***************************************************************************)
EXTENDS Integers, Sequences, FiniteSets, TLC

(***************************************************************************)
(* Bounds of the model.                                                    *)
(***************************************************************************)
\* The configuration script calls define_table at most MaxCalls times.
MaxCalls == 2

(***************************************************************************)
(* Lua values.  A scalar is a record [k, s, n]: k is the Lua type name,    *)
(* s the payload of a string, n the payload of a number or boolean.        *)
(***************************************************************************)
Nil == [k |-> "nil", s |-> "", n |-> 0]

Str(s) == [k |-> "string", s |-> s, n |-> 0]

Num(n) == [k |-> "number", s |-> "", n |-> n]

Bool(b) == [k |-> "boolean", s |-> "", n |-> IF b THEN 1 ELSE 0]

\* lua_type(): the type of the value.
lua_type(v) == v.k

lua_isnil(v) == v.k = "nil"

lua_istable(v) == v.k = "table"

\* lua_isstring(): true for a string and for a number (a number is always
\* convertible to a string).
lua_isstring(v) == v.k \in {"string", "number"}

\* The decimal text of the numbers the inputs use.
Numeral(n) ==
    CASE n = 0 -> "0"
      [] n = 1 -> "1"
      [] n = 5 -> "5"
      [] n = 4326 -> "4326"
      [] OTHER -> "n"

\* lua_tostring() of a string or a number.
lua_tostring(v) == IF v.k = "string" THEN v.s ELSE Numeral(v.n)

\* lua_toboolean() of a boolean.
lua_toboolean(v) == v.n = 1

(***************************************************************************)
(* Errors.  An error is [msg, arg]: the message template of the throw and  *)
(* the identifier it is formatted with.                                    *)
(***************************************************************************)
NoError == "none"

MsgArgNotTable == "Argument #1 to 'define_table' must be a table."

MsgStringField == "{} must contain a '{}' string field."

MsgBoolField == "{} must be a boolean field."

MsgIdentifier == "Special characters are not allowed in {}: '{}'."

MsgTableExists == "Table with name '{}' already exists."

MsgNoSchema == "Schema '{0}' not available. Use 'CREATE SCHEMA \"{0}\";' to create it."

MsgNoTablespace == "Tablespace '{0}' not available. Use 'CREATE TABLESPACE \"{0}\" ...;' to create it."

MsgClusterUnknown == "Unknown value '{}' for 'cluster' table option (use 'auto' or 'no')."

MsgClusterNotString == "Unknown value for 'cluster' table option: Must be string."

MsgTypeColumn == "type_column must be a string or nil."

MsgIdsType == "Unknown ids type: {}."

MsgCreateIndex == "Unknown value '{}' for 'create_index' field of ids"

MsgNoColumnsField == "No 'columns' field (or not an array) in table '{}'."

MsgColumnsNotArray == "The 'columns' field must contain an array."

MsgColumnNotTable == "The entries in the 'columns' array must be tables."

MsgProjection == "Projection can only be set on geometry and area columns."

MsgNoColumns == "No columns defined for table '{}'."

MsgIndexesField == "The 'indexes' field in definition of table '{}' is not an array."

MsgIndexesNotArray == "The 'indexes' field must contain an array."

MsgIndexNotTable == "The entries in the 'indexes' array must be Lua tables."

MsgColumnType == "Unknown column type '{}'."

MsgDuplicateColumn == "Column with name '{}' already exists."

MsgIndexColumn == "Unknown column '{}' in index definition."

Err(msg, arg) == [msg |-> msg, arg |-> arg]

(***************************************************************************)
(* The execution context of one call: the table list as the handler has    *)
(* written it so far, the exception in flight (if any) and whether          *)
(* log_warn() was called.                                                  *)
(***************************************************************************)
Ctx(tbls) == [tables |-> tbls, err |-> Err(NoError, ""), warned |-> FALSE]

Ok(c) == c.err.msg = NoError

Throw(c, msg, arg) == [c EXCEPT !.err = Err(msg, arg)]

\* The table create_flex_table() appended: a reference to the last element.
new_table(c) == c.tables[Len(c.tables)]

SetNewTable(c, t) == [c EXCEPT !.tables[Len(c.tables)] = t]

(***************************************************************************)
(* Helpers of the repository that are declared in headers outside the      *)
(* translated file.                                                        *)
(***************************************************************************)
\* The names the identifier grammar rejects, among the strings of the inputs.
IllegalIdentifiers == {"bad;name", "x\"y"}

\* check_identifier(): TRUE when the name satisfies the identifier grammar
\* (the C++ function throws otherwise).
check_identifier(name) == name \notin IllegalIdentifiers

\* The schemas and tablespaces the database reports.
DbSchemas == {"public", "osm"}

DbTablespaces == {"fast"}

has_schema(schema) == schema \in DbSchemas

has_tablespace(ts) == ts \in DbTablespaces

\* luaX_get_table_string() without a default: the field must be a string.
luaX_get_table_string(v) ==
    IF lua_isstring(v) THEN [ok |-> TRUE, s |-> lua_tostring(v)]
    ELSE [ok |-> FALSE, s |-> ""]

\* luaX_get_table_string() with a default for a missing field.
luaX_get_table_string_default(v, default) ==
    IF lua_isnil(v) THEN [ok |-> TRUE, s |-> default]
    ELSE IF lua_type(v) = "string" THEN [ok |-> TRUE, s |-> v.s]
    ELSE [ok |-> FALSE, s |-> ""]

\* luaX_get_table_bool() with a default for a missing field.
luaX_get_table_bool(v, default) ==
    IF lua_isnil(v) THEN [ok |-> TRUE, b |-> default]
    ELSE IF lua_type(v) = "boolean" THEN [ok |-> TRUE, b |-> lua_toboolean(v)]
    ELSE [ok |-> FALSE, b |-> default]

\* util::find_by_name(): the position of the table of that name, 0 for none.
find_by_name(tbls, name) ==
    IF \E i \in 1..Len(tbls) : tbls[i].name = name
    THEN CHOOSE i \in 1..Len(tbls) :
            /\ tbls[i].name = name
            /\ \A j \in 1..(i - 1) : tbls[j].name # name
    ELSE 0

(***************************************************************************)
(* flex_table_t and flex_table_column_t.                                   *)
(***************************************************************************)
GeometryTypes ==
    {"geometry", "point", "linestring", "polygon", "multipoint",
     "multilinestring", "multipolygon", "geometrycollection"}

ColumnTypes ==
    GeometryTypes \cup
    {"text", "boolean", "int2", "int4", "int8", "real", "numeric", "hstore",
     "json", "jsonb", "direction", "area", "id_num", "id_type"}

\* flex_table_t(name): a table as constructed; "" and "default" stand for
\* the constructor's values of fields no setter has been called on.
flex_table_t(name) ==
    [name |-> name, schema |-> "", cluster_by_geom |-> "default",
     data_tablespace |-> "", index_tablespace |-> "",
     id_type |-> "undefined", always_build_id_index |-> FALSE,
     columns |-> <<>>, geom_column |-> 0, indexes |-> <<>>]

flex_table_column_t(name, type, sql_type) ==
    [name |-> name, type |-> type, sql_type |-> sql_type,
     not_null |-> FALSE, create_only |-> FALSE, projection |-> ""]

is_geometry_column(column) == column.type \in GeometryTypes

has_geom_column(t) == t.geom_column # 0

geom_column(t) == t.columns[t.geom_column]

has_id_column(t) ==
    \E i \in 1..Len(t.columns) : t.columns[i].type \in {"id_num", "id_type"}

has_column(t, name) == \E i \in 1..Len(t.columns) : t.columns[i].name = name

\* A variant of add_column that accepts a name the table already has.
add_column_no_duplicate_check(t, name, type, sql_type) ==
    IF type \notin ColumnTypes
    THEN [err |-> Err(MsgColumnType, type), table |-> t]
    ELSE LET column == flex_table_column_t(name, type, sql_type)
             cols == Append(t.columns, column)
         IN [err |-> Err(NoError, ""),
             table |-> [t EXCEPT !.columns = cols,
                                 !.geom_column =
                                     IF is_geometry_column(column)
                                     THEN Len(cols) ELSE @]]

\* flex_table_t::add_column(): appends a column; rejects an unknown type and
\* a name the table already has.  Returns [err, table].
add_column(t, name, type, sql_type) ==
    IF type \notin ColumnTypes
    THEN [err |-> Err(MsgColumnType, type), table |-> t]
    ELSE IF has_column(t, name)
    THEN [err |-> Err(MsgDuplicateColumn, name), table |-> t]
    ELSE LET column == flex_table_column_t(name, type, sql_type)
             cols == Append(t.columns, column)
         IN [err |-> Err(NoError, ""),
             table |-> [t EXCEPT !.columns = cols,
                                 !.geom_column =
                                     IF is_geometry_column(column)
                                     THEN Len(cols) ELSE @]]

\* The column add_column() returned a reference to: the table's last one.
SetLastColumn(t, column) == [t EXCEPT !.columns[Len(t.columns)] = column]

LastColumn(t) == t.columns[Len(t.columns)]

(***************************************************************************)
(* create_flex_table(): name, schema, cluster and tablespaces.             *)
(***************************************************************************)
\* A variant of check_tablespace that never throws.
check_tablespace_unchecked(tablespace) == Err(NoError, "")

\* check_tablespace(): the error it throws, or no error.
check_tablespace(tablespace) ==
    IF ~has_tablespace(tablespace)
    THEN Err(MsgNoTablespace, tablespace)
    ELSE Err(NoError, "")

\* A variant of name_exists that finds no table.
name_exists_never(tbls, name) == FALSE

\* The test of the duplicate-name throw.
name_exists(tbls, name) == find_by_name(tbls, name) # 0

\* The optional "schema" field.
schema_field(c, v) ==
    IF ~Ok(c) THEN c
    ELSE IF lua_isstring(v)
    THEN LET schema == lua_tostring(v)
         IN IF ~check_identifier(schema)
            THEN Throw(c, MsgIdentifier, schema)
            ELSE IF ~has_schema(schema)
            THEN Throw(c, MsgNoSchema, schema)
            ELSE SetNewTable(c, [new_table(c) EXCEPT !.schema = schema])
    ELSE c

\* A variant of cluster_field that takes any unknown value as 'no'.
cluster_field_lenient(c, v) ==
    IF ~Ok(c) THEN c
    ELSE IF lua_type(v) = "string" /\ lua_tostring(v) = "auto"
    THEN SetNewTable(c, [new_table(c) EXCEPT !.cluster_by_geom = "true"])
    ELSE IF lua_type(v) = "nil"
    THEN c
    ELSE SetNewTable(c, [new_table(c) EXCEPT !.cluster_by_geom = "false"])

\* A variant of cluster_field in which 'auto' leaves the table as constructed.
cluster_field_auto_ignored(c, v) ==
    IF ~Ok(c) THEN c
    ELSE IF lua_type(v) = "string"
    THEN LET cluster == lua_tostring(v)
         IN IF cluster = "auto"
            THEN c
            ELSE IF cluster = "no"
            THEN SetNewTable(c, [new_table(c) EXCEPT
                                     !.cluster_by_geom = "false"])
            ELSE Throw(c, MsgClusterUnknown, cluster)
    ELSE IF lua_type(v) = "nil"
    THEN c
    ELSE Throw(c, MsgClusterNotString, "")

\* The optional "cluster" field.
cluster_field(c, v) ==
    IF ~Ok(c) THEN c
    ELSE IF lua_type(v) = "string"
    THEN LET cluster == lua_tostring(v)
         IN IF cluster = "auto"
            THEN SetNewTable(c, [new_table(c) EXCEPT
                                     !.cluster_by_geom = "true"])
            ELSE IF cluster = "no"
            THEN SetNewTable(c, [new_table(c) EXCEPT
                                     !.cluster_by_geom = "false"])
            ELSE Throw(c, MsgClusterUnknown, cluster)
    ELSE IF lua_type(v) = "nil"
    THEN c
    ELSE Throw(c, MsgClusterNotString, "")

\* The optional "data_tablespace" field.
data_tablespace_field(c, v) ==
    IF ~Ok(c) THEN c
    ELSE IF lua_isstring(v)
    THEN LET tablespace == lua_tostring(v)
         IN IF ~check_identifier(tablespace)
            THEN Throw(c, MsgIdentifier, tablespace)
            ELSE IF check_tablespace(tablespace).msg # NoError
            THEN [c EXCEPT !.err = check_tablespace(tablespace)]
            ELSE SetNewTable(c, [new_table(c) EXCEPT
                                     !.data_tablespace = tablespace])
    ELSE c

\* The optional "index_tablespace" field.
index_tablespace_field(c, v) ==
    IF ~Ok(c) THEN c
    ELSE IF lua_isstring(v)
    THEN LET tablespace == lua_tostring(v)
         IN IF ~check_identifier(tablespace)
            THEN Throw(c, MsgIdentifier, tablespace)
            ELSE IF check_tablespace(tablespace).msg # NoError
            THEN [c EXCEPT !.err = check_tablespace(tablespace)]
            ELSE SetNewTable(c, [new_table(c) EXCEPT
                                     !.index_tablespace = tablespace])
    ELSE c

\* create_flex_table(): the table is appended as soon as its name is
\* accepted; the fields that follow are set on the appended element.
create_flex_table(c, L) ==
    LET table_name == luaX_get_table_string(L.name)
    IN IF ~table_name.ok
       THEN Throw(c, MsgStringField, "name")
       ELSE IF ~check_identifier(table_name.s)
       THEN Throw(c, MsgIdentifier, table_name.s)
       ELSE IF name_exists(c.tables, table_name.s)
       THEN Throw(c, MsgTableExists, table_name.s)
       ELSE LET c1 == [c EXCEPT
                          !.tables = Append(@, flex_table_t(table_name.s))]
            IN index_tablespace_field(
                   data_tablespace_field(
                       cluster_field(schema_field(c1, L.schema), L.cluster),
                       L.data_tablespace),
                   L.index_tablespace)

(***************************************************************************)
(* setup_flex_table_id_columns(): the "ids" field.                         *)
(***************************************************************************)
\* Adds a column through add_column() and marks it NOT NULL.
AddNotNullColumn(c, name, type) ==
    LET r == add_column(new_table(c), name, type, "")
    IN IF r.err.msg # NoError
       THEN [c EXCEPT !.err = r.err]
       ELSE SetNewTable(c, SetLastColumn(r.table,
                [LastColumn(r.table) EXCEPT !.not_null = TRUE]))

\* A variant of check_identifier as applied to column names: accepts all.
check_column_identifier_unchecked(name) == TRUE

\* check_identifier(name, "column names").
check_column_identifier(name) == check_identifier(name)

\* The type of the ids: sets the id type and, for 'any', the type column.
ids_type(c, type, type_column) ==
    IF type \in {"node", "way", "relation", "area"}
    THEN SetNewTable(c, [new_table(c) EXCEPT !.id_type = type])
    ELSE IF type = "any"
    THEN LET c1 == SetNewTable(c, [new_table(c) EXCEPT
                                       !.id_type = "undefined"])
         IN IF lua_isstring(type_column)
            THEN LET column_name == lua_tostring(type_column)
                 IN IF ~check_column_identifier(column_name)
                    THEN Throw(c1, MsgIdentifier, column_name)
                    ELSE AddNotNullColumn(c1, column_name, "id_type")
            ELSE IF ~lua_isnil(type_column)
            THEN Throw(c1, MsgTypeColumn, "")
            ELSE c1
    ELSE Throw(c, MsgIdsType, type)

setup_flex_table_id_columns(c, ids) ==
    IF ~Ok(c) THEN c
    ELSE IF lua_type(ids) # "table"
    THEN [c EXCEPT !.warned = TRUE]
    ELSE LET type == luaX_get_table_string(ids.type)
         IN IF ~type.ok
            THEN Throw(c, MsgStringField, "type")
            ELSE LET c1 == ids_type(c, type.s, ids.type_column)
                     name == luaX_get_table_string(ids.id_column)
                     create_index ==
                         luaX_get_table_string_default(ids.create_index,
                                                       "auto")
                 IN IF ~Ok(c1) THEN c1
                    ELSE IF ~name.ok
                    THEN Throw(c1, MsgStringField, "id_column")
                    ELSE IF ~check_column_identifier(name.s)
                    THEN Throw(c1, MsgIdentifier, name.s)
                    ELSE IF ~create_index.ok
                    THEN Throw(c1, MsgStringField, "create_index")
                    ELSE IF create_index.s = "always"
                    THEN AddNotNullColumn(
                             SetNewTable(c1, [new_table(c1) EXCEPT
                                 !.always_build_id_index = TRUE]),
                             name.s, "id_num")
                    ELSE IF create_index.s # "auto"
                    THEN Throw(c1, MsgCreateIndex, create_index.s)
                    ELSE AddNotNullColumn(c1, name.s, "id_num")

(***************************************************************************)
(* setup_flex_table_columns(): the "columns" field.                        *)
(***************************************************************************)
\* A variant of projection_allowed that allows a projection on any column.
projection_allowed_always(column) == TRUE

\* The test guarding set_projection().
projection_allowed(column) ==
    is_geometry_column(column) \/ column.type = "area"

\* A variant of no_columns_defined that never reports an empty table.
no_columns_defined_never(num_columns, t) == FALSE

\* The test of the "No columns defined" throw.
no_columns_defined(num_columns, t) == num_columns = 0 /\ ~has_id_column(t)

\* The "projection" field of a column entry, on the column just added.
column_projection(c, v) ==
    IF ~lua_isnil(v)
    THEN IF projection_allowed(LastColumn(new_table(c)))
         THEN SetNewTable(c, SetLastColumn(new_table(c),
                  [LastColumn(new_table(c)) EXCEPT
                       !.projection = lua_tostring(v)]))
         ELSE Throw(c, MsgProjection, "")
    ELSE c

\* The "not_null" and "create_only" fields, then the projection.
column_flags(c, e) ==
    LET not_null == luaX_get_table_bool(e.not_null, FALSE)
        create_only == luaX_get_table_bool(e.create_only, FALSE)
    IN IF ~not_null.ok
       THEN Throw(c, MsgBoolField, "not_null")
       ELSE LET c1 == SetNewTable(c, SetLastColumn(new_table(c),
                          [LastColumn(new_table(c)) EXCEPT
                               !.not_null = not_null.b]))
            IN IF ~create_only.ok
               THEN Throw(c1, MsgBoolField, "create_only")
               ELSE column_projection(
                        SetNewTable(c1, SetLastColumn(new_table(c1),
                            [LastColumn(new_table(c1)) EXCEPT
                                 !.create_only = create_only.b])),
                        e.projection)

\* The body of the loop over the entries of the "columns" array.
column_entry(c, e) ==
    IF ~lua_istable(e)
    THEN Throw(c, MsgColumnNotTable, "")
    ELSE LET type == luaX_get_table_string_default(e.type, "text")
             name == luaX_get_table_string(e.column)
             sql_type == luaX_get_table_string_default(e.sql_type, "")
         IN IF ~type.ok
            THEN Throw(c, MsgStringField, "type")
            ELSE IF ~name.ok
            THEN Throw(c, MsgStringField, "column")
            ELSE IF ~check_column_identifier(name.s)
            THEN Throw(c, MsgIdentifier, name.s)
            ELSE IF ~sql_type.ok
            THEN Throw(c, MsgStringField, "sql_type")
            ELSE LET r == add_column(new_table(c), name.s, type.s,
                                     sql_type.s)
                 IN IF r.err.msg # NoError
                    THEN [c EXCEPT !.err = r.err]
                    ELSE column_flags(SetNewTable(c, r.table), e)

\* luaX_for_each() over the entries from position i on; stops at a throw.
\* Returns the context and num_columns.
RECURSIVE columns_for_each(_, _, _, _)
columns_for_each(c, items, i, num_columns) ==
    IF i > Len(items)
    THEN [c |-> c, num_columns |-> num_columns]
    ELSE LET c1 == column_entry(c, items[i])
         IN IF ~Ok(c1)
            THEN [c |-> c1, num_columns |-> num_columns]
            ELSE columns_for_each(c1, items, i + 1, num_columns + 1)

setup_flex_table_columns(c, columns) ==
    IF ~Ok(c) THEN c
    ELSE IF lua_type(columns) # "table"
    THEN Throw(c, MsgNoColumnsField, new_table(c).name)
    ELSE IF ~columns.array
    THEN Throw(c, MsgColumnsNotArray, "")
    ELSE LET r == columns_for_each(c, columns.items, 1, 0)
         IN IF ~Ok(r.c) THEN r.c
            ELSE IF no_columns_defined(r.num_columns, new_table(r.c))
            THEN Throw(r.c, MsgNoColumns, new_table(r.c).name)
            ELSE r.c

(***************************************************************************)
(* setup_flex_table_indexes(): the "indexes" field.                        *)
(***************************************************************************)
\* The fillfactor of the default index of a target that is not updatable.
FillFactorFull == 100

\* flex_index_t as add_index(method) constructs it; fillfactor 0 is unset.
flex_index_t(method) ==
    [method |-> method, columns |-> "", fillfactor |-> 0, tablespace |-> ""]

\* A variant of default_index that sets the fillfactor on updatable targets.
default_index_fillfactor_inverted(t, updatable) ==
    [[flex_index_t("gist") EXCEPT !.columns = geom_column(t).name]
        EXCEPT !.fillfactor = IF updatable THEN FillFactorFull ELSE @,
               !.tablespace = t.index_tablespace]

\* The index added when the "indexes" field is nil and the table has a
\* geometry column.
default_index(t, updatable) ==
    [[flex_index_t("gist") EXCEPT !.columns = geom_column(t).name]
        EXCEPT !.fillfactor = IF ~updatable THEN FillFactorFull ELSE @,
               !.tablespace = t.index_tablespace]

\* flex_lua_setup_index(): adds the index an entry declares; the entry names
\* a method and a column of the table.  Returns [err, table].
flex_lua_setup_index(t, e) ==
    LET method == luaX_get_table_string(e.method)
        column == luaX_get_table_string(e.column)
    IN IF ~method.ok
       THEN [err |-> Err(MsgStringField, "method"), table |-> t]
       ELSE IF ~column.ok
       THEN [err |-> Err(MsgStringField, "column"), table |-> t]
       ELSE IF ~has_column(t, column.s)
       THEN [err |-> Err(MsgIndexColumn, column.s), table |-> t]
       ELSE [err |-> Err(NoError, ""),
             table |-> [t EXCEPT !.indexes = Append(@,
                           [flex_index_t(method.s) EXCEPT
                                !.columns = column.s])]]

\* The body of the loop over the entries of the "indexes" array.
index_entry(c, e) ==
    IF ~lua_istable(e)
    THEN Throw(c, MsgIndexNotTable, "")
    ELSE LET r == flex_lua_setup_index(new_table(c), e)
         IN IF r.err.msg # NoError
            THEN [c EXCEPT !.err = r.err]
            ELSE SetNewTable(c, r.table)

RECURSIVE indexes_for_each(_, _, _)
indexes_for_each(c, items, i) ==
    IF i > Len(items) \/ ~Ok(c)
    THEN c
    ELSE indexes_for_each(index_entry(c, items[i]), items, i + 1)

setup_flex_table_indexes(c, indexes, updatable) ==
    IF ~Ok(c) THEN c
    ELSE IF lua_type(indexes) = "nil"
    THEN IF has_geom_column(new_table(c))
         THEN SetNewTable(c, [new_table(c) EXCEPT !.indexes =
                  Append(@, default_index(new_table(c), updatable))])
         ELSE c
    ELSE IF lua_type(indexes) # "table"
    THEN Throw(c, MsgIndexesField, new_table(c).name)
    ELSE IF ~indexes.array
    THEN Throw(c, MsgIndexesNotArray, "")
    ELSE indexes_for_each(c, indexes.items, 1)

(***************************************************************************)
(* setup_flex_table(): the handler of define_table.                        *)
(***************************************************************************)
\* The handler's effect on a context: the four steps in order, each skipped
\* once an exception is in flight.
run_setup_flex_table(c, L, updatable) ==
    IF lua_type(L) # "table"
    THEN Throw(c, MsgArgNotTable, "")
    ELSE setup_flex_table_indexes(
             setup_flex_table_columns(
                 setup_flex_table_id_columns(create_flex_table(c, L), L.ids),
                 L.columns),
             L.indexes, updatable)

(***************************************************************************)
(* The arguments of define_table the model draws its calls from.           *)
(* A Lua table with fixed keys is a record whose k is "table"; a value of  *)
(* another type in the place of such a table has another k.                *)
(***************************************************************************)
\* An entry of the "columns" array.
Column(name, type, projection) ==
    [k |-> "table", type |-> type, column |-> name, sql_type |-> Nil,
     not_null |-> Nil, create_only |-> Nil, projection |-> projection]

TextColumn(name) == Column(Str(name), Str("text"), Nil)

\* A value that is no table where a column entry is expected.
ScalarColumn ==
    [k |-> "string", type |-> Nil, column |-> Nil, sql_type |-> Nil,
     not_null |-> Nil, create_only |-> Nil, projection |-> Nil]

\* An entry of the "indexes" array.
Index(method, column) == [k |-> "table", method |-> method, column |-> column]

ScalarIndex == [k |-> "string", method |-> Nil, column |-> Nil]

\* A Lua array, a table that is no array, and a value that is no table.
Array(items) == [k |-> "table", array |-> TRUE, items |-> items]

NotAnArray == [k |-> "table", array |-> FALSE, items |-> <<>>]

NoArray(kind) == [k |-> kind, array |-> FALSE, items |-> <<>>]

\* The "ids" field.
Ids(type, type_column, id_column, create_index) ==
    [k |-> "table", type |-> type, type_column |-> type_column,
     id_column |-> id_column, create_index |-> create_index]

NoIds(kind) ==
    [k |-> kind, type |-> Nil, type_column |-> Nil, id_column |-> Nil,
     create_index |-> Nil]

NodeIds == Ids(Str("node"), Nil, Str("osm_id"), Nil)

AnyIds == Ids(Str("any"), Str("osm_type"), Str("osm_id"), Nil)

\* A valid definition: no ids, a text column and a geometry column.
Base ==
    [k |-> "table", name |-> Str("t1"), schema |-> Nil, cluster |-> Nil,
     data_tablespace |-> Nil, index_tablespace |-> Nil, ids |-> NoIds("nil"),
     columns |-> Array(<<TextColumn("tags"),
                         Column(Str("geom"), Str("geometry"), Nil)>>),
     indexes |-> NoArray("nil")]

SchemaValues == {Str("osm"), Str("nosch"), Str("bad;name"), Bool(TRUE), Num(5)}

ClusterValues == {Str("auto"), Str("no"), Str("foo"), Num(1), Bool(TRUE)}

TablespaceValues == {Str("fast"), Str("slow"), Str("bad;name"), Bool(TRUE)}

IdsValues ==
    {NoIds("boolean"), NodeIds, AnyIds,
     Ids(Str("way"), Nil, Str("osm_id"), Nil),
     Ids(Str("relation"), Nil, Str("osm_id"), Str("auto")),
     Ids(Str("area"), Nil, Str("osm_id"), Str("always")),
     Ids(Str("any"), Nil, Str("osm_id"), Nil),
     Ids(Str("any"), Bool(TRUE), Str("osm_id"), Nil),
     Ids(Str("any"), Num(5), Str("osm_id"), Nil),
     Ids(Str("any"), Str("bad;name"), Str("osm_id"), Nil),
     Ids(Str("any"), Str("osm_id"), Str("osm_id"), Nil),
     Ids(Str("any"), Str("osm_type"), Str("osm_id"), Str("always")),
     Ids(Str("any"), Str("osm_type"), Str("x\"y"), Nil),
     Ids(Str("bogus"), Nil, Str("osm_id"), Nil),
     Ids(Nil, Nil, Str("osm_id"), Nil),
     Ids(Str("node"), Nil, Nil, Nil),
     Ids(Str("node"), Nil, Str("bad;name"), Nil),
     Ids(Str("node"), Nil, Str("osm_id"), Str("bogus")),
     Ids(Str("node"), Nil, Str("osm_id"), Bool(TRUE)),
     Ids(Str("node"), Nil, Str("tags"), Nil),
     Ids(Str("way"), Str("geom"), Str("osm_id"), Nil)}

ColumnsValues ==
    {NoArray("nil"), NoArray("boolean"), NotAnArray, Array(<<>>),
     Array(<<ScalarColumn>>),
     Array(<<TextColumn("tags")>>),
     Array(<<Column(Str("geom"), Str("point"), Num(4326))>>),
     Array(<<Column(Str("area"), Str("area"), Str("4326"))>>),
     Array(<<Column(Str("tags"), Str("text"), Num(4326))>>),
     Array(<<Column(Str("geom"), Str("geometry"), Nil),
             Column(Str("n"), Str("int4"), Str("4326"))>>),
     Array(<<Column(Str("tags"), Str("bogus"), Nil)>>),
     Array(<<Column(Str("tags"), Nil, Nil)>>),
     Array(<<Column(Str("tags"), Bool(TRUE), Nil)>>),
     Array(<<Column(Nil, Str("text"), Nil)>>),
     Array(<<Column(Str("bad;name"), Str("text"), Nil)>>),
     Array(<<TextColumn("tags"), Column(Str("x\"y"), Str("point"), Nil)>>),
     Array(<<[TextColumn("tags") EXCEPT !.not_null = Bool(TRUE),
                                        !.sql_type = Str("jsonb")]>>),
     Array(<<[TextColumn("tags") EXCEPT !.not_null = Str("yes")]>>),
     Array(<<[TextColumn("tags") EXCEPT !.create_only = Bool(TRUE)]>>),
     Array(<<[TextColumn("tags") EXCEPT !.create_only = Num(1)]>>),
     Array(<<[TextColumn("tags") EXCEPT !.sql_type = Bool(TRUE)]>>),
     Array(<<TextColumn("tags"), TextColumn("tags")>>),
     Array(<<TextColumn("tags"), TextColumn("name")>>),
     Array(<<Column(Str("geom"), Str("point"), Nil),
             Column(Str("geom"), Str("linestring"), Nil)>>),
     Array(<<Column(Str("geom"), Str("point"), Nil),
             Column(Str("way"), Str("linestring"), Nil)>>)}

IndexesValues ==
    {NoArray("boolean"), NotAnArray, Array(<<>>), Array(<<ScalarIndex>>),
     Array(<<Index(Str("btree"), Str("tags"))>>),
     Array(<<Index(Str("btree"), Str("nope"))>>),
     Array(<<Index(Nil, Str("tags"))>>),
     Array(<<Index(Str("gist"), Nil)>>),
     Array(<<Index(Str("gist"), Str("geom")),
             Index(Str("btree"), Str("tags"))>>),
     Array(<<Index(Str("gist"), Str("geom")), ScalarIndex>>)}

\* Definitions that differ from Base in one field.
OneField ==
    {Base}
    \cup {[Base EXCEPT !.schema = v] : v \in SchemaValues}
    \cup {[Base EXCEPT !.cluster = v] : v \in ClusterValues}
    \cup {[Base EXCEPT !.data_tablespace = v] : v \in TablespaceValues}
    \cup {[Base EXCEPT !.index_tablespace = v] : v \in TablespaceValues}
    \cup {[Base EXCEPT !.ids = v] : v \in IdsValues}
    \cup {[Base EXCEPT !.columns = v] : v \in ColumnsValues}
    \cup {[Base EXCEPT !.indexes = v] : v \in IndexesValues}

\* Definitions that differ from Base in several fields.
SeveralFields ==
    {[Base EXCEPT !.cluster = cl, !.columns = co] :
        cl \in {Str("auto"), Str("no")},
        co \in {Array(<<TextColumn("tags")>>), Array(<<>>)}}
    \cup {[Base EXCEPT !.ids = i, !.columns = co] :
        i \in {NodeIds, AnyIds},
        co \in {Array(<<>>), Array(<<TextColumn("tags")>>),
                Array(<<TextColumn("osm_id")>>),
                Array(<<TextColumn("tags"), TextColumn("osm_type")>>),
                NoArray("nil")}}
    \cup {[Base EXCEPT !.index_tablespace = Str("fast"), !.columns = co,
                       !.indexes = ix] :
        co \in {Array(<<TextColumn("tags")>>)},
        ix \in {NoArray("nil"), Array(<<Index(Str("btree"), Str("tags"))>>)}}
    \cup {[Base EXCEPT !.index_tablespace = Str("fast"),
                       !.indexes = Array(<<Index(Str("gist"), Str("geom"))>>)],
          [Base EXCEPT !.schema = Str("osm"), !.cluster = Str("auto"),
                       !.data_tablespace = Str("fast"),
                       !.index_tablespace = Str("fast"), !.ids = AnyIds],
          [Base EXCEPT !.schema = Str("nosch"), !.cluster = Str("foo"),
                       !.data_tablespace = Str("slow")],
          [Base EXCEPT !.cluster = Num(1), !.index_tablespace = Str("slow"),
                       !.columns = Array(<<>>)],
          [Base EXCEPT !.data_tablespace = Str("slow"),
                       !.index_tablespace = Str("slow")],
          [Base EXCEPT !.ids = Ids(Str("bogus"), Nil, Str("osm_id"), Nil),
                       !.columns = Array(<<>>)],
          [Base EXCEPT !.columns = Array(<<>>),
                       !.indexes = NoArray("boolean")]}

\* Definitions under a second table name.
SecondName ==
    {[s EXCEPT !.name = Str("t2")] :
        s \in {Base,
               [Base EXCEPT !.schema = Str("osm")],
               [Base EXCEPT !.schema = Str("nosch")],
               [Base EXCEPT !.cluster = Str("foo")],
               [Base EXCEPT !.index_tablespace = Str("slow")],
               [Base EXCEPT !.ids = AnyIds],
               [Base EXCEPT !.ids = Ids(Str("bogus"), Nil, Str("osm_id"), Nil)],
               [Base EXCEPT !.columns = Array(<<>>)],
               [Base EXCEPT !.columns =
                   Array(<<Column(Str("tags"), Str("text"), Num(4326))>>)],
               [Base EXCEPT !.indexes = NoArray("boolean")]}}

\* Definitions whose name is rejected, and an argument that is no table.
BadName ==
    {[Base EXCEPT !.name = Str("bad;name")],
     [Base EXCEPT !.name = Bool(TRUE)],
     [Base EXCEPT !.name = Nil],
     [Base EXCEPT !.k = "string"]}

Definitions == OneField \cup SeveralFields \cup SecondName \cup BadName

(***************************************************************************)
(* State.                                                                  *)
(***************************************************************************)
VARIABLES
    tables,     \* the list of tables (std::vector<flex_table_t>)
    updatable,  \* the 'updatable' argument the output passes to every call
    handles,    \* the handles returned so far: [num, name]
    call,       \* the last call: its argument, its outcome, the list before
    ncalls      \* the number of calls made

vars == <<tables, updatable, handles, call, ncalls>>

Init ==
    /\ tables = <<>>
    /\ updatable \in BOOLEAN
    /\ handles = <<>>
    /\ call = [done |-> FALSE, L |-> Base, err |-> Err(NoError, ""),
               warned |-> FALSE, before |-> <<>>]
    /\ ncalls = 0

\* A variant of table_handle that holds the size of the table list.
table_handle_size(tbls) == Len(tbls)

\* The number stored in the userdata the call returns: the index (from 0) of
\* the last table of the list.
table_handle(tbls) == Len(tbls) - 1

\* One call of define_table with argument L.
setup_flex_table(L) ==
    /\ ncalls < MaxCalls
    /\ ncalls' = ncalls + 1
    /\ LET r == run_setup_flex_table(Ctx(tables), L, updatable)
       IN /\ tables' = r.tables
          /\ handles' = IF Ok(r)
                        THEN Append(handles,
                                 [num |-> table_handle(r.tables),
                                  name |-> lua_tostring(L.name)])
                        ELSE handles
          /\ call' = [done |-> TRUE, L |-> L, err |-> r.err,
                      warned |-> r.warned, before |-> tables]
    /\ UNCHANGED updatable

Next == \E L \in Definitions : setup_flex_table(L)

Spec == Init /\ [][Next]_vars

(***************************************************************************)
(* What a definition must look like to be accepted, stated on the Lua      *)
(* argument alone.                                                         *)
(***************************************************************************)
IdsTypes == {"node", "way", "relation", "area", "any"}

IsDefinitionTable(L) == lua_type(L) = "table"

NameFine(L, before) ==
    /\ lua_isstring(L.name)
    /\ lua_tostring(L.name) \notin IllegalIdentifiers
    /\ \A i \in 1..Len(before) : before[i].name # lua_tostring(L.name)

SchemaFine(v) ==
    lua_isstring(v) =>
        lua_tostring(v) \notin IllegalIdentifiers /\ lua_tostring(v) \in DbSchemas

ClusterFine(v) ==
    lua_type(v) = "nil" \/ (lua_type(v) = "string" /\ v.s \in {"auto", "no"})

TablespaceFine(v) ==
    lua_isstring(v) =>
        /\ lua_tostring(v) \notin IllegalIdentifiers
        /\ lua_tostring(v) \in DbTablespaces

\* The checks of create_flex_table() pass.
CreateFine(L, before) ==
    /\ IsDefinitionTable(L)
    /\ NameFine(L, before)
    /\ SchemaFine(L.schema)
    /\ ClusterFine(L.cluster)
    /\ TablespaceFine(L.data_tablespace)
    /\ TablespaceFine(L.index_tablespace)

\* The names of the columns a valid ids configuration creates.
IdColumnNames(ids) ==
    IF lua_type(ids) # "table" THEN {}
    ELSE (IF lua_isstring(ids.id_column)
          THEN {lua_tostring(ids.id_column)} ELSE {})
         \cup (IF ids.type = Str("any") /\ lua_isstring(ids.type_column)
               THEN {lua_tostring(ids.type_column)} ELSE {})

ValidIds(ids) ==
    /\ lua_type(ids) = "table"
    /\ lua_isstring(ids.type)
    /\ lua_tostring(ids.type) \in IdsTypes
    /\ lua_tostring(ids.type) = "any" =>
           \/ lua_isnil(ids.type_column)
           \/ /\ lua_isstring(ids.type_column)
              /\ lua_tostring(ids.type_column) \notin IllegalIdentifiers
              /\ lua_tostring(ids.type_column) # lua_tostring(ids.id_column)
    /\ lua_isstring(ids.id_column)
    /\ lua_tostring(ids.id_column) \notin IllegalIdentifiers
    /\ ids.create_index \in {Nil, Str("auto"), Str("always")}

\* The column type an entry asks for ("text" when it names none).
EntryType(e) == IF lua_isnil(e.type) THEN "text" ELSE e.type.s

IsSpatialType(type) == type \in GeometryTypes \cup {"area"}

ValidColumnEntry(e) ==
    /\ lua_type(e) = "table"
    /\ lua_type(e.type) \in {"nil", "string"}
    /\ EntryType(e) \in ColumnTypes
    /\ lua_isstring(e.column)
    /\ lua_tostring(e.column) \notin IllegalIdentifiers
    /\ lua_type(e.sql_type) \in {"nil", "string"}
    /\ lua_type(e.not_null) \in {"nil", "boolean"}
    /\ lua_type(e.create_only) \in {"nil", "boolean"}
    /\ ~lua_isnil(e.projection) => IsSpatialType(EntryType(e))

ValidColumns(columns, ids) ==
    /\ lua_type(columns) = "table"
    /\ columns.array
    /\ \A i \in 1..Len(columns.items) :
           /\ ValidColumnEntry(columns.items[i])
           /\ lua_tostring(columns.items[i].column) \notin IdColumnNames(ids)
           /\ \A j \in 1..(i - 1) :
                  columns.items[j].column # columns.items[i].column
    /\ Len(columns.items) = 0 => lua_type(ids) = "table"

\* The names of the columns the definition declares.
DeclaredColumnNames(L) ==
    IdColumnNames(L.ids) \cup
    {lua_tostring(L.columns.items[i].column) : i \in 1..Len(L.columns.items)}

ValidIndexes(L) ==
    \/ lua_type(L.indexes) = "nil"
    \/ /\ lua_type(L.indexes) = "table"
       /\ L.indexes.array
       /\ \A i \in 1..Len(L.indexes.items) :
              /\ lua_type(L.indexes.items[i]) = "table"
              /\ lua_isstring(L.indexes.items[i].method)
              /\ lua_isstring(L.indexes.items[i].column)
              /\ lua_tostring(L.indexes.items[i].column)
                     \in DeclaredColumnNames(L)

ValidDefinition(L, before) ==
    /\ CreateFine(L, before)
    /\ lua_type(L.ids) = "table" => ValidIds(L.ids)
    /\ ValidColumns(L.columns, L.ids)
    /\ ValidIndexes(L)

(***************************************************************************)
(* The last call.                                                          *)
(***************************************************************************)
Succeeded == call.done /\ call.err.msg = NoError

Failed == call.done /\ call.err.msg # NoError

\* The call appended a table to the list.
Appended == call.done /\ Len(tables) = Len(call.before) + 1

LastTable == tables[Len(tables)]

\* Lemma: a call succeeds exactly when its argument is a valid definition.
AcceptedIffValid ==
    call.done => (Succeeded <=> ValidDefinition(call.L, call.before))

(***************************************************************************)
(* Properties.                                                             *)
(*                                                                         *)
(* The handler throws at the first check that fails, so "the call fails    *)
(* with error E" for a check that is not the first one is stated in two    *)
(* parts: the call fails, and the error is E whenever every check the      *)
(* handler makes before that one passes.                                   *)
(***************************************************************************)

\* C1: the names of the tables in the list are pairwise distinct, and a
\* call whose 'name' is the name of a table already in the list fails with
\* "Table with name '...' already exists." and appends no table.
C1_TableNamesDistinct ==
    /\ \A i, j \in 1..Len(tables) :
           i # j => tables[i].name # tables[j].name
    /\ (/\ call.done
        /\ IsDefinitionTable(call.L)
        /\ lua_isstring(call.L.name)
        /\ \E i \in 1..Len(call.before) :
               call.before[i].name = lua_tostring(call.L.name))
       => /\ call.err = Err(MsgTableExists, lua_tostring(call.L.name))
          /\ tables = call.before

\* C1 witness: a call repeated the name of a table of the list and was
\* rejected as a duplicate.
C1_Witness ==
    /\ call.done
    /\ Len(call.before) >= 1
    /\ call.before[1].name = lua_tostring(call.L.name)
    /\ call.err.msg = MsgTableExists

\* C2: a 'schema', 'data_tablespace' or 'index_tablespace' string that the
\* database does not report makes the call fail; the error names the
\* identifier and the CREATE statement when the handler gets as far as the
\* probe of that field; the schema and tablespaces stored on any table have
\* passed the identifier check and the probe.
C2_SchemaAndTablespacesExist ==
    /\ \A f \in {"schema", "data_tablespace", "index_tablespace"} :
           (/\ call.done
            /\ IsDefinitionTable(call.L)
            /\ lua_isstring(call.L[f])
            /\ lua_tostring(call.L[f]) \notin
                   (IF f = "schema" THEN DbSchemas ELSE DbTablespaces))
           => Failed
    /\ (/\ call.done
        /\ IsDefinitionTable(call.L)
        /\ NameFine(call.L, call.before)
        /\ lua_isstring(call.L.schema)
        /\ lua_tostring(call.L.schema) \notin IllegalIdentifiers
        /\ lua_tostring(call.L.schema) \notin DbSchemas)
       => call.err = Err(MsgNoSchema, lua_tostring(call.L.schema))
    /\ (/\ call.done
        /\ IsDefinitionTable(call.L)
        /\ NameFine(call.L, call.before)
        /\ SchemaFine(call.L.schema)
        /\ ClusterFine(call.L.cluster)
        /\ lua_isstring(call.L.data_tablespace)
        /\ lua_tostring(call.L.data_tablespace) \notin IllegalIdentifiers
        /\ lua_tostring(call.L.data_tablespace) \notin DbTablespaces)
       => call.err =
              Err(MsgNoTablespace, lua_tostring(call.L.data_tablespace))
    /\ (/\ call.done
        /\ IsDefinitionTable(call.L)
        /\ NameFine(call.L, call.before)
        /\ SchemaFine(call.L.schema)
        /\ ClusterFine(call.L.cluster)
        /\ TablespaceFine(call.L.data_tablespace)
        /\ lua_isstring(call.L.index_tablespace)
        /\ lua_tostring(call.L.index_tablespace) \notin IllegalIdentifiers
        /\ lua_tostring(call.L.index_tablespace) \notin DbTablespaces)
       => call.err =
              Err(MsgNoTablespace, lua_tostring(call.L.index_tablespace))
    /\ \A i \in 1..Len(tables) :
           /\ tables[i].schema # "" =>
                  /\ tables[i].schema \notin IllegalIdentifiers
                  /\ tables[i].schema \in DbSchemas
           /\ tables[i].data_tablespace # "" =>
                  /\ tables[i].data_tablespace \notin IllegalIdentifiers
                  /\ tables[i].data_tablespace \in DbTablespaces
           /\ tables[i].index_tablespace # "" =>
                  /\ tables[i].index_tablespace \notin IllegalIdentifiers
                  /\ tables[i].index_tablespace \in DbTablespaces

\* C2 witness: a call named an index tablespace the database does not have
\* and failed with the tablespace error naming it, after its table had been
\* appended.
C2_Witness ==
    /\ call.done
    /\ call.err = Err(MsgNoTablespace, "slow")
    /\ call.L.index_tablespace = Str("slow")
    /\ Appended

\* C3: a table whose definition succeeded has at least one column or an id
\* column; an empty 'columns' array without an 'ids' table fails, with "No
\* columns defined for table '...'" when the checks before it pass; an empty
\* 'columns' array with a valid 'ids' is accepted; a missing 'ids' with
\* valid columns is accepted with a warning.
C3_ColumnOrIdColumn ==
    /\ Succeeded =>
           /\ Len(LastTable.columns) >= 1
           /\ \/ Len(call.L.columns.items) >= 1
              \/ has_id_column(LastTable)
    /\ (/\ call.done
        /\ IsDefinitionTable(call.L)
        /\ call.L.columns = Array(<<>>)
        /\ lua_type(call.L.ids) # "table")
       => /\ Failed
          /\ CreateFine(call.L, call.before) =>
                 call.err = Err(MsgNoColumns, lua_tostring(call.L.name))
    /\ (/\ call.done
        /\ CreateFine(call.L, call.before)
        /\ call.L.columns = Array(<<>>)
        /\ ValidIds(call.L.ids))
       => /\ call.err.msg # MsgNoColumns
          /\ ValidIndexes(call.L) => Succeeded /\ ~call.warned
    /\ (/\ call.done
        /\ CreateFine(call.L, call.before)
        /\ lua_type(call.L.ids) # "table")
       => /\ call.warned
          /\ (/\ ValidColumns(call.L.columns, call.L.ids)
              /\ ValidIndexes(call.L)) => Succeeded

\* C3 witness: a definition with an empty 'columns' array and a valid 'ids'
\* succeeded; its table has only id columns.
C3_Witness ==
    /\ Succeeded
    /\ call.L.columns = Array(<<>>)
    /\ has_id_column(LastTable)
    /\ Len(LastTable.columns) = 2

\* C4: no table has two columns of the same name, and a definition that
\* would give a table two columns of the same name (two 'columns' entries,
\* a 'columns' entry and an id column, or the id column and the type
\* column) fails.
C4_ColumnNamesDistinct ==
    /\ \A i \in 1..Len(tables) :
           \A a, b \in 1..Len(tables[i].columns) :
               a # b => tables[i].columns[a].name # tables[i].columns[b].name
    /\ (/\ call.done
        /\ IsDefinitionTable(call.L)
        /\ lua_type(call.L.columns) = "table"
        /\ \E a, b \in 1..Len(call.L.columns.items) :
               /\ a # b
               /\ lua_isstring(call.L.columns.items[a].column)
               /\ call.L.columns.items[a].column =
                      call.L.columns.items[b].column)
       => Failed
    /\ (/\ call.done
        /\ IsDefinitionTable(call.L)
        /\ lua_type(call.L.columns) = "table"
        /\ \E a \in 1..Len(call.L.columns.items) :
               /\ lua_isstring(call.L.columns.items[a].column)
               /\ lua_tostring(call.L.columns.items[a].column)
                      \in IdColumnNames(call.L.ids))
       => Failed
    /\ (/\ call.done
        /\ IsDefinitionTable(call.L)
        /\ lua_type(call.L.ids) = "table"
        /\ call.L.ids.type = Str("any")
        /\ lua_isstring(call.L.ids.type_column)
        /\ lua_isstring(call.L.ids.id_column)
        /\ lua_tostring(call.L.ids.type_column) =
               lua_tostring(call.L.ids.id_column))
       => Failed

\* C4 witness: a definition with a 'columns' entry named like its id column
\* was rejected for the duplicate name.
C4_Witness ==
    /\ call.done
    /\ call.err = Err(MsgDuplicateColumn, "osm_id")
    /\ call.L.ids = NodeIds

\* C5: a column carries a projection only if it is a geometry or area
\* column, and a 'columns' entry with a non-nil 'projection' and another
\* type makes the call fail, with "Projection can only be set on geometry
\* and area columns." when every check before that one passes.
C5_ProjectionOnlyOnSpatial ==
    /\ \A i \in 1..Len(tables) :
           \A a \in 1..Len(tables[i].columns) :
               tables[i].columns[a].projection # "" =>
                   IsSpatialType(tables[i].columns[a].type)
    /\ (/\ call.done
        /\ IsDefinitionTable(call.L)
        /\ lua_type(call.L.columns) = "table"
        /\ \E a \in 1..Len(call.L.columns.items) :
               LET e == call.L.columns.items[a]
               IN /\ lua_type(e) = "table"
                  /\ ~lua_isnil(e.projection)
                  /\ lua_type(e.type) \in {"nil", "string"}
                  /\ ~IsSpatialType(EntryType(e)))
       => Failed
    /\ (/\ call.done
        /\ CreateFine(call.L, call.before)
        /\ lua_type(call.L.ids) = "table" => ValidIds(call.L.ids)
        /\ lua_type(call.L.columns) = "table"
        /\ call.L.columns.array
        /\ \E a \in 1..Len(call.L.columns.items) :
               LET e == call.L.columns.items[a]
               IN /\ ValidColumnEntry([e EXCEPT !.projection = Nil])
                  /\ ~lua_isnil(e.projection)
                  /\ ~IsSpatialType(EntryType(e))
                  /\ lua_tostring(e.column) \notin IdColumnNames(call.L.ids)
                  /\ \A b \in 1..(a - 1) :
                         /\ ValidColumnEntry(call.L.columns.items[b])
                         /\ lua_tostring(call.L.columns.items[b].column)
                                \notin IdColumnNames(call.L.ids)
                         /\ \A d \in 1..a :
                                d # b => call.L.columns.items[b].column #
                                             call.L.columns.items[d].column)
       => call.err = Err(MsgProjection, "")

\* C5 witness: a definition set a projection on an int4 column that follows
\* a geometry column, and was rejected with the projection error.
C5_Witness ==
    /\ call.done
    /\ call.err.msg = MsgProjection
    /\ Len(call.L.columns.items) = 2
    /\ call.L.columns.items[2].type = Str("int4")

\* Whether the definition declares a column of a geometry type.
DeclaresGeometry(L) ==
    \E i \in 1..Len(L.columns.items) :
        /\ lua_type(L.columns.items[i]) = "table"
        /\ lua_type(L.columns.items[i].type) = "string"
        /\ L.columns.items[i].type.s \in GeometryTypes

\* C6 as stated: a call with cluster = 'auto' for a table without a geometry
\* column is rejected, and no successfully defined table has
\* cluster-by-geometry enabled without having a geometry column.
C6_ClusterAutoNeedsGeometry ==
    /\ (/\ call.done
        /\ IsDefinitionTable(call.L)
        /\ call.L.cluster = Str("auto")
        /\ ~DeclaresGeometry(call.L))
       => Failed
    /\ Succeeded =>
           ~(LastTable.cluster_by_geom = "true" /\ ~has_geom_column(LastTable))

\* C6 as amended: the 'cluster' option is validated on its own; a valid
\* definition with cluster = 'auto' is accepted whether or not it declares a
\* geometry column, and on success 'auto' has enabled cluster-by-geometry
\* on the table and 'no' has disabled it.
C6_ClusterAutoAccepted ==
    /\ (/\ call.done
        /\ ValidDefinition(call.L, call.before)
        /\ call.L.cluster = Str("auto"))
       => Succeeded /\ LastTable.cluster_by_geom = "true"
    /\ (Succeeded /\ call.L.cluster = Str("auto"))
       => LastTable.cluster_by_geom = "true"
    /\ (Succeeded /\ call.L.cluster = Str("no"))
       => LastTable.cluster_by_geom = "false"

\* C6 witness: a definition with cluster = 'auto' and no geometry column
\* succeeded, and its table has cluster-by-geometry enabled.
C6_Witness ==
    /\ Succeeded
    /\ call.L.cluster = Str("auto")
    /\ ~DeclaresGeometry(call.L)
    /\ ~has_geom_column(LastTable)
    /\ LastTable.cluster_by_geom = "true"

\* C7: unknown option values are rejected, never replaced by a default.  A
\* 'cluster' that is not nil, 'auto' or 'no', an ids 'type' that is not
\* node, way, relation, area or any, an ids 'create_index' that is not nil,
\* 'auto' or 'always', and for ids type 'any' a 'type_column' that is
\* neither nil nor a string (lua_isstring) each make the call fail, with the
\* error of that check when every check before it passes.
C7_UnknownOptionsRejected ==
    /\ (/\ call.done
        /\ IsDefinitionTable(call.L)
        /\ ~ClusterFine(call.L.cluster))
       => /\ Failed
          /\ (NameFine(call.L, call.before) /\ SchemaFine(call.L.schema)) =>
                 call.err =
                     IF lua_type(call.L.cluster) = "string"
                     THEN Err(MsgClusterUnknown, call.L.cluster.s)
                     ELSE Err(MsgClusterNotString, "")
    /\ (/\ call.done
        /\ IsDefinitionTable(call.L)
        /\ lua_type(call.L.ids) = "table"
        /\ \/ ~lua_isstring(call.L.ids.type)
           \/ lua_tostring(call.L.ids.type) \notin IdsTypes)
       => /\ Failed
          /\ (CreateFine(call.L, call.before) /\ lua_isstring(call.L.ids.type))
                 => call.err = Err(MsgIdsType, lua_tostring(call.L.ids.type))
    /\ (/\ call.done
        /\ IsDefinitionTable(call.L)
        /\ lua_type(call.L.ids) = "table"
        /\ call.L.ids.create_index \notin {Nil, Str("auto"), Str("always")})
       => /\ Failed
          /\ (/\ CreateFine(call.L, call.before)
              /\ ValidIds([call.L.ids EXCEPT !.create_index = Nil])
              /\ lua_type(call.L.ids.create_index) = "string")
                 => call.err = Err(MsgCreateIndex, call.L.ids.create_index.s)
    /\ (/\ call.done
        /\ IsDefinitionTable(call.L)
        /\ lua_type(call.L.ids) = "table"
        /\ call.L.ids.type = Str("any")
        /\ ~lua_isnil(call.L.ids.type_column)
        /\ ~lua_isstring(call.L.ids.type_column))
       => /\ Failed
          /\ CreateFine(call.L, call.before) =>
                 call.err = Err(MsgTypeColumn, "")

\* C7 witness: a call with an unknown 'cluster' string failed with the
\* cluster error after its table name had been accepted.
C7_Witness ==
    /\ call.done
    /\ call.err = Err(MsgClusterUnknown, "foo")
    /\ call.L.cluster = Str("foo")
    /\ Appended

\* C8: on success, when 'indexes' is nil and the table has a geometry
\* column the table has exactly one index: gist, on the geometry column, in
\* the table's index tablespace, with fillfactor 100 iff the target is not
\* updatable; when 'indexes' is nil and there is no geometry column the
\* table has no index; when 'indexes' is an array the table has exactly the
\* declared indexes.
C8_DefaultIndex ==
    Succeeded =>
        /\ (lua_isnil(call.L.indexes) /\ DeclaresGeometry(call.L)) =>
               /\ Len(LastTable.indexes) = 1
               /\ LastTable.indexes[1].method = "gist"
               /\ \E a \in 1..Len(LastTable.columns) :
                      /\ LastTable.columns[a].name =
                             LastTable.indexes[1].columns
                      /\ LastTable.columns[a].type \in GeometryTypes
               /\ LastTable.indexes[1].tablespace =
                      (IF lua_isstring(call.L.index_tablespace)
                       THEN lua_tostring(call.L.index_tablespace) ELSE "")
               /\ LastTable.indexes[1].tablespace = LastTable.index_tablespace
               /\ LastTable.indexes[1].fillfactor =
                      (IF ~updatable THEN FillFactorFull ELSE 0)
        /\ (lua_isnil(call.L.indexes) /\ ~DeclaresGeometry(call.L)) =>
               LastTable.indexes = <<>>
        /\ lua_type(call.L.indexes) = "table" =>
               /\ Len(LastTable.indexes) = Len(call.L.indexes.items)
               /\ \A a \in 1..Len(LastTable.indexes) :
                      /\ LastTable.indexes[a].method =
                             lua_tostring(call.L.indexes.items[a].method)
                      /\ LastTable.indexes[a].columns =
                             lua_tostring(call.L.indexes.items[a].column)

\* C8 witness: a definition without 'indexes', with a geometry column and
\* an index tablespace, succeeded on a target that is not updatable.
C8_Witness ==
    /\ Succeeded
    /\ ~updatable
    /\ lua_isnil(call.L.indexes)
    /\ call.L.index_tablespace = Str("fast")
    /\ has_geom_column(LastTable)
    /\ Len(LastTable.indexes) = 1

\* C9: every table name and every column name in the table list satisfies
\* the identifier grammar, and a definition with an illegal table name
\* appends no table.
C9_IdentifiersLegal ==
    /\ \A i \in 1..Len(tables) :
           /\ tables[i].name \notin IllegalIdentifiers
           /\ \A a \in 1..Len(tables[i].columns) :
                  tables[i].columns[a].name \notin IllegalIdentifiers
    /\ (/\ call.done
        /\ IsDefinitionTable(call.L)
        /\ lua_isstring(call.L.name)
        /\ lua_tostring(call.L.name) \in IllegalIdentifiers)
       => /\ tables = call.before
          /\ call.err = Err(MsgIdentifier, lua_tostring(call.L.name))

\* C9 witness: a definition whose second column has an illegal name was
\* rejected after its first column had been added.
C9_Witness ==
    /\ call.done
    /\ call.err = Err(MsgIdentifier, "x\"y")
    /\ Appended
    /\ Len(LastTable.columns) = 1

\* C10 as stated: a call that fails leaves the table list as it was before
\* the call, so a call is rejected as a duplicate only for the name of a
\* table that an earlier call defined successfully.
C10_FailedCallLeavesTables ==
    /\ Failed => tables = call.before
    /\ (call.done /\ call.err.msg = MsgTableExists) =>
           \E h \in 1..Len(handles) :
               handles[h].name = lua_tostring(call.L.name)

\* C11: a successful call returns the index (from 0) of the table it
\* defined, the size of the list minus one; a call only appends to the
\* list and leaves the tables already in it as they were; so every handle
\* returned so far indexes the table named in the call that returned it,
\* whatever calls followed, and no two handles hold the same index.
C11_HandlesIndexTheirTables ==
    /\ Succeeded =>
           /\ Len(handles) >= 1
           /\ handles[Len(handles)].num = Len(tables) - 1
           /\ handles[Len(handles)].name = lua_tostring(call.L.name)
           /\ Appended
    /\ call.done =>
           /\ Len(tables) >= Len(call.before)
           /\ Len(tables) <= Len(call.before) + 1
           /\ \A i \in 1..Len(call.before) : tables[i] = call.before[i]
    /\ \A h \in 1..Len(handles) :
           /\ handles[h].num >= 0
           /\ handles[h].num + 1 <= Len(tables)
           /\ tables[handles[h].num + 1].name = handles[h].name
    /\ \A g, h \in 1..Len(handles) :
           g # h => handles[g].num # handles[h].num

\* C11 witness: after a successful call returned handle 0, a later call
\* failed and left a second table in the list; handle 0 still indexes the
\* table of the first call.
C11_Witness ==
    /\ Failed
    /\ Len(handles) = 1
    /\ handles[1].num = 0
    /\ Len(tables) = 2
    /\ tables[1].name = handles[1].name
    /\ tables[2].name # handles[1].name

====
